---------------------------- MODULE Spec2Model ----------------------------
(***************************************************************************)
(* Model of the update package of circleci-cli (package update):           *)
(* ShouldCheckForUpdates, CheckForUpdates, checkFromSource,                *)
(* ParseHomebrewVersion, checkFromHomebrew, latestRelease and              *)
(* IsLatestVersion, together with the parts of blang/semver and of the     *)
(* Go strings package they call.                                           *)
(*                                                                         *)
(* A Go string is a sequence of one-character strings; the nil error is    *)
(* the empty sequence and a non-nil error is the chain of its messages,    *)
(* outermost wrap first.                                                   *)
(***************************************************************************)
EXTENDS Integers, Sequences, FiniteSets, TLC

----------------------------------------------------------------------------
(* Go strings *)

numbers == {"0", "1", "2", "3", "4", "5", "6", "7", "8", "9"}

alphas ==
    {"a", "b", "c", "d", "e", "f", "g", "h", "i", "j", "k", "l", "m",
     "n", "o", "p", "q", "r", "s", "t", "u", "v", "w", "x", "y", "z",
     "A", "B", "C", "D", "E", "F", "G", "H", "I", "J", "K", "L", "M",
     "N", "O", "P", "Q", "R", "S", "T", "U", "V", "W", "X", "Y", "Z", "-"}

alphanum == alphas \cup numbers

\* The bytes the model's strings are made of, in increasing byte value.
byteOrder ==
    <<"+", "-", ".", "0", "1", "2", "3", "4", "5", "6", "7", "8", "9",
      "A", "B", "C", "D", "E", "F", "G", "H", "I", "J", "K", "L", "M",
      "N", "O", "P", "Q", "R", "S", "T", "U", "V", "W", "X", "Y", "Z", "_",
      "a", "b", "c", "d", "e", "f", "g", "h", "i", "j", "k", "l", "m",
      "n", "o", "p", "q", "r", "s", "t", "u", "v", "w", "x", "y", "z">>

byteOf(c) == CHOOSE i \in 1..Len(byteOrder) : byteOrder[i] = c

digitChars == <<"0", "1", "2", "3", "4", "5", "6", "7", "8", "9">>

digitVal(c) == (CHOOSE i \in 1..10 : digitChars[i] = c) - 1

\* s > t on Go strings: bytewise lexicographic order.
RECURSIVE stringGreater(_, _)
stringGreater(s, t) ==
    IF s = <<>> THEN FALSE
    ELSE IF t = <<>> THEN TRUE
    ELSE IF Head(s) = Head(t) THEN stringGreater(Tail(s), Tail(t))
    ELSE byteOf(Head(s)) > byteOf(Head(t))

\* strings.IndexRune, 1-based; 0 stands for Go's -1.
IndexRune(s, c) ==
    IF \E i \in 1..Len(s) : s[i] = c
    THEN CHOOSE i \in 1..Len(s) : s[i] = c /\ \A j \in 1..(i - 1) : s[j] # c
    ELSE 0

\* strings.SplitN(s, sep, n) for a one-byte separator and n > 0.
RECURSIVE SplitN(_, _, _)
SplitN(s, sep, n) ==
    LET i == IndexRune(s, sep) IN
    IF n = 1 \/ i = 0 THEN <<s>>
    ELSE <<SubSeq(s, 1, i - 1)>> \o SplitN(SubSeq(s, i + 1, Len(s)), sep, n - 1)

\* strings.Split(s, sep) for a one-byte separator.
RECURSIVE Split(_, _)
Split(s, sep) ==
    LET i == IndexRune(s, sep) IN
    IF i = 0 THEN <<s>>
    ELSE <<SubSeq(s, 1, i - 1)>> \o Split(SubSeq(s, i + 1, Len(s)), sep)

\* strings.Replace(s, old, new, n) for one-byte old and new and n >= 0.
RECURSIVE Replace(_, _, _, _)
Replace(s, old, new, n) ==
    IF s = <<>> \/ n = 0 THEN s
    ELSE IF Head(s) = old THEN <<new>> \o Replace(Tail(s), old, new, n - 1)
    ELSE <<Head(s)>> \o Replace(Tail(s), old, new, n)

\* strings.Join(parts, sep)
RECURSIVE Join(_, _)
Join(parts, sep) ==
    IF parts = <<>> THEN <<>>
    ELSE IF Len(parts) = 1 THEN parts[1]
    ELSE parts[1] \o sep \o Join(Tail(parts), sep)

\* strconv.AppendUint(b, n, 10)
RECURSIVE FormatUint(_)
FormatUint(n) ==
    IF n < 10 THEN <<digitChars[n + 1]>>
    ELSE FormatUint(n \div 10) \o <<digitChars[(n % 10) + 1]>>

\* strconv.ParseUint(s, 10, 64) of a string of digits.  It fails on the
\* empty string; the model's strings are too short to overflow 64 bits.
RECURSIVE uintValue(_)
uintValue(s) ==
    IF s = <<>> THEN 0
    ELSE 10 * uintValue(SubSeq(s, 1, Len(s) - 1)) + digitVal(s[Len(s)])

ParseUintFails(s) == s = <<>> \/ \E i \in 1..Len(s) : s[i] \notin numbers

----------------------------------------------------------------------------
(* github.com/blang/semver *)

containsOnly(s, set) == \A i \in 1..Len(s) : s[i] \in set

hasLeadingZeroes(s) == Len(s) > 1 /\ s[1] = "0"

\* semver.Version{}
ZeroVersion == [Major |-> 0, Minor |-> 0, Patch |-> 0, Pre |-> <<>>, Build |-> <<>>]

\* semver.NewPRVersion
NewPRVersion(s) ==
    IF s = <<>> THEN [err |-> TRUE, pr |-> [VersionStr |-> <<>>, VersionNum |-> 0, IsNum |-> FALSE]]
    ELSE IF containsOnly(s, numbers)
    THEN IF hasLeadingZeroes(s)
         THEN [err |-> TRUE, pr |-> [VersionStr |-> <<>>, VersionNum |-> 0, IsNum |-> FALSE]]
         ELSE [err |-> FALSE, pr |-> [VersionStr |-> <<>>, VersionNum |-> uintValue(s), IsNum |-> TRUE]]
    ELSE IF containsOnly(s, alphanum)
    THEN [err |-> FALSE, pr |-> [VersionStr |-> s, VersionNum |-> 0, IsNum |-> FALSE]]
    ELSE [err |-> TRUE, pr |-> [VersionStr |-> <<>>, VersionNum |-> 0, IsNum |-> FALSE]]

numberFails(s) == ~containsOnly(s, numbers) \/ hasLeadingZeroes(s) \/ ParseUintFails(s)

parseError == [err |-> TRUE, v |-> ZeroVersion]

\* semver.Parse from the pre-release identifiers on: the patch number, the
\* pre-release and the build identifiers have been cut apart.
parseIdentifiers(major, minor, patchStr, prerelease, build) ==
    IF numberFails(patchStr) THEN parseError
    ELSE IF \E i \in 1..Len(prerelease) : NewPRVersion(prerelease[i]).err THEN parseError
    ELSE IF \E i \in 1..Len(build) : build[i] = <<>> \/ ~containsOnly(build[i], alphanum)
    THEN parseError
    ELSE [err |-> FALSE,
          v |-> [Major |-> uintValue(major),
                 Minor |-> uintValue(minor),
                 Patch |-> uintValue(patchStr),
                 Pre |-> [i \in 1..Len(prerelease) |-> NewPRVersion(prerelease[i]).pr],
                 Build |-> build]]

\* semver.Parse at preIndex := strings.IndexRune(patchStr, '-')
parsePrerelease(major, minor, patchStr, build, preIndex) ==
    parseIdentifiers(major, minor,
                     IF preIndex # 0 THEN SubSeq(patchStr, 1, preIndex - 1) ELSE patchStr,
                     IF preIndex # 0
                     THEN Split(SubSeq(patchStr, preIndex + 1, Len(patchStr)), ".")
                     ELSE <<>>,
                     build)

\* semver.Parse at buildIndex := strings.IndexRune(patchStr, '+')
parseBuild(major, minor, patchStr, buildIndex) ==
    parsePrerelease(major, minor,
                    IF buildIndex # 0 THEN SubSeq(patchStr, 1, buildIndex - 1) ELSE patchStr,
                    IF buildIndex # 0
                    THEN Split(SubSeq(patchStr, buildIndex + 1, Len(patchStr)), ".")
                    ELSE <<>>,
                    IndexRune(IF buildIndex # 0 THEN SubSeq(patchStr, 1, buildIndex - 1)
                              ELSE patchStr, "-"))

\* semver.Parse from parts := strings.SplitN(s, ".", 3) on
parseParts(parts) ==
    IF Len(parts) # 3 THEN parseError
    ELSE IF numberFails(parts[1]) \/ numberFails(parts[2]) THEN parseError
    ELSE parseBuild(parts[1], parts[2], parts[3], IndexRune(parts[3], "+"))

\* semver.Parse: [err, v]; v is the zero Version when err.
semverParse(s) == IF s = <<>> THEN parseError ELSE parseParts(SplitN(s, ".", 3))

\* PRVersion.String
PRVersionString(pr) == IF pr.IsNum THEN FormatUint(pr.VersionNum) ELSE pr.VersionStr

\* Version.String
VersionString(v) ==
    FormatUint(v.Major) \o <<".">> \o FormatUint(v.Minor) \o <<".">> \o FormatUint(v.Patch)
    \o (IF Len(v.Pre) > 0
        THEN <<"-">> \o Join([i \in 1..Len(v.Pre) |-> PRVersionString(v.Pre[i])], <<".">>)
        ELSE <<>>)
    \o (IF Len(v.Build) > 0 THEN <<"+">> \o Join(v.Build, <<".">>) ELSE <<>>)

\* PRVersion.Compare
PRVersionCompare(v, o) ==
    IF v.IsNum /\ ~o.IsNum THEN -1
    ELSE IF ~v.IsNum /\ o.IsNum THEN 1
    ELSE IF v.IsNum /\ o.IsNum
    THEN IF v.VersionNum = o.VersionNum THEN 0
         ELSE IF v.VersionNum > o.VersionNum THEN 1 ELSE -1
    ELSE IF v.VersionStr = o.VersionStr THEN 0
         ELSE IF stringGreater(v.VersionStr, o.VersionStr) THEN 1 ELSE -1

\* The loop of Version.Compare over the pre-release identifiers, from index i.
RECURSIVE comparePre(_, _, _)
comparePre(vp, op, i) ==
    IF i <= Len(vp) /\ i <= Len(op)
    THEN LET comp == PRVersionCompare(vp[i], op[i]) IN
         IF comp = 0 THEN comparePre(vp, op, i + 1) ELSE comp
    ELSE IF i > Len(vp) /\ i > Len(op) THEN 0
    ELSE IF i > Len(vp) THEN -1
    ELSE 1

\* Version.Compare
VersionCompare(v, o) ==
    IF v.Major # o.Major THEN (IF v.Major > o.Major THEN 1 ELSE -1)
    ELSE IF v.Minor # o.Minor THEN (IF v.Minor > o.Minor THEN 1 ELSE -1)
    ELSE IF v.Patch # o.Patch THEN (IF v.Patch > o.Patch THEN 1 ELSE -1)
    ELSE IF Len(v.Pre) = 0 /\ Len(o.Pre) = 0 THEN 0
    ELSE IF Len(v.Pre) = 0 /\ Len(o.Pre) > 0 THEN 1
    ELSE IF Len(v.Pre) > 0 /\ Len(o.Pre) = 0 THEN -1
    ELSE comparePre(v.Pre, o.Pre, 1)

\* Version.Equals
VersionEquals(v, o) == VersionCompare(v, o) = 0

----------------------------------------------------------------------------
(* package update *)

VARIABLES
    pc,               \* "start" before CheckForUpdates is called, then "checked"
    args,             \* the arguments CheckForUpdates was called with
    env,              \* what brew and the release API answered during the call
    check,            \* the *Options CheckForUpdates returned: <<>> is nil
    err,              \* the error CheckForUpdates returned: <<>> is nil
    strategies,       \* the check functions the call ran, in order
    parseCalls,       \* the ParseHomebrewVersion calls the call made, in order
    isLatest,         \* what IsLatestVersion returned: <<>> before it is called
    now,              \* the wall clock, in ticks
    upd,              \* settings.UpdateCheck, owned by the caller
    shouldCheck       \* what ShouldCheckForUpdates returned: <<>> before it is called

vars == <<pc, args, env, check, err, strategies, parseCalls, isLatest, now, upd, shouldCheck>>

updateVars == <<pc, args, env, check, err, strategies, parseCalls, isLatest>>

schedVars == <<now, upd, shouldCheck>>

nil == <<>>

\* errors.Wrap(err, message) with err # nil.  Messages are kept word for
\* word, with ' for the backquote.
Wrap(e, message) == <<message>> \o e

\* The message latestRelease wraps a failed query in, line by line.
githubFailureMessage ==
    <<"Failed to query the GitHub API for updates.",
      "",
      "This is most likely due to GitHub rate-limiting on unauthenticated requests.",
      "",
      "To have the circleci-cli make authenticated requests please:",
      "",
      "  1. Generate a token at https://github.com/settings/tokens",
      "  2. Set the token by either adding it to your ~/.gitconfig or",
      "     setting the GITHUB_TOKEN environment variable.",
      "",
      "Instructions for generating a token can be found at:",
      "https://help.github.com/articles/creating-a-personal-access-token-for-the-command-line/",
      "",
      "We call the GitHub releases API to look for new releases.",
      "More information about that API can be found here: https://developer.github.com/v3/repos/releases/",
      "",
      "">>

\* latestRelease returning the provider's error as it came.
latestReleaseUnwrapped(opts, detect) ==
    [check |-> [opts EXCEPT !.Latest = detect.latest, !.Found = detect.found],
     err |-> detect.err]

\* latestRelease leaving Found as it was.
latestReleaseKeepingFound(opts, detect) ==
    [check |-> [opts EXCEPT !.Latest = detect.latest],
     err |-> IF detect.err # nil THEN Wrap(detect.err, githubFailureMessage) ELSE nil]

\* latestRelease: detect is what updater.DetectLatest(slug) returned.
latestRelease(opts, detect) ==
    LET opts1 == [opts EXCEPT !.Latest = detect.latest, !.Found = detect.found] IN
    IF detect.err # nil
    THEN [check |-> opts1, err |-> Wrap(detect.err, githubFailureMessage)]
    ELSE [check |-> opts1, err |-> nil]

\* checkFromSource: e.newUpdaterErr is the error of selfupdate.NewUpdater.
checkFromSource(c, e) ==
    IF e.newUpdaterErr # nil
    THEN [check |-> c, err |-> e.newUpdaterErr]
    ELSE latestRelease([c EXCEPT !.updater = TRUE], e.detect)

hoursBeforeCheck == 28

\* The count argument of strings.Replace in ParseHomebrewVersion.
replaceCount == 10

\* The string ParseHomebrewVersion hands to semver.Parse.
withRevisionAsTag(homebrewVesion) == Replace(homebrewVesion, "_", "-", replaceCount)

\* ParseHomebrewVersion.  The error text names the raw string and the cause;
\* the model keeps its format.
ParseHomebrewVersion(homebrewVesion) ==
    LET parsed == semverParse(withRevisionAsTag(homebrewVesion)) IN
    IF parsed.err
    THEN [version |-> ZeroVersion, err |-> <<<<"failed to parse current version from %s: %s">>>>]
    ELSE [version |-> parsed.v, err |-> nil]

parseCall(raw) == [raw |-> raw, parsed |-> withRevisionAsTag(raw)]

\* The loop of checkFromHomebrew reading the last installed version, not the first.
RECURSIVE scanFormulaeLastInstalled(_, _, _, _)
scanFormulaeLastInstalled(formulae, i, c, calls) ==
    IF i > Len(formulae) THEN [check |-> c, err |-> nil, calls |-> calls]
    ELSE
    LET o == formulae[i] IN
    IF o.Name # "circleci" THEN scanFormulaeLastInstalled(formulae, i + 1, c, calls)
    ELSE
    LET hasInstalled == Len(o.InstalledVersions) > 0
        installed == IF hasInstalled THEN o.InstalledVersions[Len(o.InstalledVersions)] ELSE <<>>
        current == IF hasInstalled
                   THEN ParseHomebrewVersion(installed)
                   ELSE [version |-> ZeroVersion, err |-> nil]
        calls1 == IF hasInstalled THEN Append(calls, parseCall(installed)) ELSE calls
        c1 == IF hasInstalled THEN [c EXCEPT !.Current = current.version] ELSE c
    IN
    IF current.err # nil THEN [check |-> c, err |-> current.err, calls |-> calls1]
    ELSE
    LET latest == ParseHomebrewVersion(o.CurrentVersion)
        calls2 == Append(calls1, parseCall(o.CurrentVersion))
    IN
    IF latest.err # nil THEN [check |-> c1, err |-> latest.err, calls |-> calls2]
    ELSE scanFormulaeLastInstalled(formulae, i + 1,
                      [c1 EXCEPT !.Latest = <<[Version |-> latest.version]>>, !.Found = TRUE],
                      calls2)

\* The loop of checkFromHomebrew over outdated.Formulae, from entry i.
RECURSIVE scanFormulae(_, _, _, _)
scanFormulae(formulae, i, c, calls) ==
    IF i > Len(formulae) THEN [check |-> c, err |-> nil, calls |-> calls]
    ELSE
    LET o == formulae[i] IN
    IF o.Name # "circleci" THEN scanFormulae(formulae, i + 1, c, calls)
    ELSE
    LET hasInstalled == Len(o.InstalledVersions) > 0
        current == IF hasInstalled
                   THEN ParseHomebrewVersion(o.InstalledVersions[1])
                   ELSE [version |-> ZeroVersion, err |-> nil]
        calls1 == IF hasInstalled
                  THEN Append(calls, parseCall(o.InstalledVersions[1]))
                  ELSE calls
        c1 == IF hasInstalled THEN [c EXCEPT !.Current = current.version] ELSE c
    IN
    IF current.err # nil THEN [check |-> c, err |-> current.err, calls |-> calls1]
    ELSE
    LET latest == ParseHomebrewVersion(o.CurrentVersion)
        calls2 == Append(calls1, parseCall(o.CurrentVersion))
    IN
    IF latest.err # nil THEN [check |-> c1, err |-> latest.err, calls |-> calls2]
    ELSE scanFormulae(formulae, i + 1,
                      [c1 EXCEPT !.Latest = <<[Version |-> latest.version]>>, !.Found = TRUE],
                      calls2)

\* checkFromHomebrew setting Found once the document is decoded, whatever the loop met.
checkFromHomebrewAlwaysFound(c, e) ==
    IF e.lookPathErr # nil \/ e.outputErr # nil \/ e.unmarshalErr # nil
    THEN [check |-> c, calls |-> <<>>, err |-> <<<<"brew failed">>>>]
    ELSE [scanFormulae(e.outdated.Formulae, 1, c, <<>>) EXCEPT !.check.Found = TRUE]

\* checkFromHomebrew: e.lookPathErr, e.outputErr and e.unmarshalErr are the
\* errors of exec.LookPath, command.Output and json.Unmarshal, e.outdated the
\* decoded document.
checkFromHomebrew(c, e) ==
    IF e.lookPathErr # nil
    THEN [check |-> c, calls |-> <<>>,
          err |-> Wrap(e.lookPathErr,
                       <<"Expected to find 'brew' in your $PATH but wasn't able to find it">>)]
    ELSE IF e.outputErr # nil
    THEN [check |-> c, calls |-> <<>>,
          err |-> Wrap(e.outputErr,
                       <<"failed to check for updates. 'brew outdated --json=v2' returned an error">>)]
    ELSE IF e.unmarshalErr # nil
    THEN [check |-> c, calls |-> <<>>,
          err |-> Wrap(e.unmarshalErr, <<"failed to parse output of 'brew outdated --json=v2'">>)]
    ELSE scanFormulae(e.outdated.Formulae, 1, c, <<>>)

\* The switch of CheckForUpdates without its "source" case.
strategiesForWithoutSource(packageManager) ==
    IF packageManager = "release" THEN <<"checkFromSource">>
    ELSE IF packageManager = "homebrew" THEN <<"checkFromHomebrew">>
    ELSE <<>>

\* The switch of CheckForUpdates: the check functions it runs for a channel.
strategiesFor(packageManager) ==
    IF packageManager = "release" THEN <<"checkFromSource">>
    ELSE IF packageManager = "source" THEN <<"checkFromSource">>
    ELSE IF packageManager = "homebrew" THEN <<"checkFromHomebrew">>
    ELSE <<>>

\* CheckForUpdates: [check, err, strategies, calls]
checkForUpdates(githubAPI, slug, current, packageManager, e) ==
    LET currentVersion == semverParse(current) IN
    IF currentVersion.err
    THEN [check |-> nil, strategies |-> <<>>, calls |-> <<>>,
          err |-> Wrap(<<<<"semver.Parse failed">>>>, <<"Failed to parse current version">>)]
    ELSE
    LET c == [Current |-> currentVersion.v,
              Found |-> FALSE,
              Latest |-> nil,
              PackageManager |-> packageManager,
              updater |-> FALSE,
              githubAPI |-> githubAPI,
              slug |-> slug]
        run == strategiesFor(c.PackageManager)
    IN
    IF run = <<"checkFromSource">>
    THEN LET r == checkFromSource(c, e) IN
         [check |-> <<r.check>>, err |-> r.err, strategies |-> run, calls |-> <<>>]
    ELSE IF run = <<"checkFromHomebrew">>
    THEN LET r == checkFromHomebrew(c, e) IN
         [check |-> <<r.check>>, err |-> r.err, strategies |-> run, calls |-> r.calls]
    ELSE [check |-> <<c>>, err |-> nil, strategies |-> run, calls |-> <<>>]

\* IsLatestVersion by order: true unless latest is newer than current.
isLatestVersionNotNewer(opts) ==
    IF VersionString(opts.Current) = <<>> \/ opts.Latest = nil
    THEN TRUE
    ELSE VersionCompare(opts.Latest[1].Version, opts.Current) <= 0

\* IsLatestVersion
isLatestVersion(opts) ==
    IF VersionString(opts.Current) = <<>> \/ opts.Latest = nil
    THEN TRUE
    ELSE VersionEquals(opts.Latest[1].Version, opts.Current)

\* Go's integer division and remainder truncate toward zero.
goDiv(a, b) == IF a >= 0 THEN a \div b ELSE -((-a) \div b)

goRem(a, b) == a - b * goDiv(a, b)

\* Ticks of the wall clock in one hour.
TicksPerHour == 2

\* The clock runs from 0 to MaxHours hours.
MaxHours == 30

\* time.Duration.Hours of a duration of d ticks: the whole hours and the
\* rest of the hour, which Go adds as float64(nsec) / (60 * 60 * 1e9).
durationHours(d) == [hour |-> goDiv(d, TicksPerHour), nsec |-> goRem(d, TicksPerHour)]

\* ShouldCheckForUpdates with a strict comparison.
shouldCheckForUpdatesStrict(u, t) ==
    LET diff == t - u.LastUpdateCheck
        h == durationHours(diff)
    IN h.hour * TicksPerHour + h.nsec > hoursBeforeCheck * TicksPerHour

\* ShouldCheckForUpdates at clock t: hour + nsec / TicksPerHour >= hoursBeforeCheck
shouldCheckForUpdates(u, t) ==
    LET diff == t - u.LastUpdateCheck
        h == durationHours(diff)
    IN h.hour * TicksPerHour + h.nsec >= hoursBeforeCheck * TicksPerHour

----------------------------------------------------------------------------
(* The callers' inputs and the collaborators' answers *)

\* The longest list of formulae brew reports.
MaxFormulae == 2

str_0_0_0 == <<"0", ".", "0", ".", "0">>

str_0_1_1248 == <<"0", ".", "1", ".", "1", "2", "4", "8">>

str_0_1_3923 == <<"0", ".", "1", ".", "3", "9", "2", "3">>

str_1_2_3 == <<"1", ".", "2", ".", "3">>

str_1_2_3_pre4 == <<"1", ".", "2", ".", "3", "-", "4">>

str_1_2_3_build == <<"1", ".", "2", ".", "3", "+", "b", "1">>

str_1_2_3_rev4 == <<"1", ".", "2", ".", "3", "_", "4">>

str_1_2_3_rev4_5 == <<"1", ".", "2", ".", "3", "_", "4", "_", "5">>

str_1_2 == <<"1", ".", "2">>

\* The version strings a build of the CLI is stamped with; str_1_2 is malformed.
CurrentArgs == {str_0_0_0, str_0_1_1248, str_1_2_3, str_1_2_3_pre4, str_1_2}

\* The channels a build is stamped with; "snap" has no case in the switch.
PackageManagers == {"release", "source", "homebrew", "snap"}

GithubAPI == "https://api.github.com/"

Slug == "CircleCI-Public/circleci-cli"

\* *selfupdate.Release values: nil or a release with its Version.
Releases == {nil, <<[Version |-> semverParse(str_0_1_3923).v]>>,
             <<[Version |-> semverParse(str_1_2_3_build).v]>>}

\* What updater.DetectLatest returns: (release, found, err).
DetectResults ==
    [latest : Releases, found : BOOLEAN, err : {nil, <<<<"API rate limit exceeded">>>>}]

\* One entry of HomebrewOutdated.Formulae (the pinned fields are never read).
Formulae ==
    [Name : {"circleci", "node"},
     InstalledVersions : {<<>>, <<str_0_1_1248>>, <<str_1_2_3_rev4, str_0_1_1248>>, <<str_1_2>>},
     CurrentVersion : {str_0_1_3923, str_1_2_3_rev4_5, str_1_2}]

Outdated == UNION {[1..n -> Formulae] : n \in 0..MaxFormulae}

noEnv ==
    [newUpdaterErr |-> nil, detect |-> [latest |-> nil, found |-> FALSE, err |-> nil],
     lookPathErr |-> nil, outputErr |-> nil, unmarshalErr |-> nil,
     outdated |-> [Formulae |-> <<>>]]

\* The answers a call can get on a channel.
Envs(packageManager) ==
    IF packageManager \in {"release", "source"}
    THEN {[noEnv EXCEPT !.newUpdaterErr = <<<<"invalid enterprise base URL">>>>]}
         \cup {[noEnv EXCEPT !.detect = d] : d \in DetectResults}
    ELSE IF packageManager = "homebrew"
    THEN {[noEnv EXCEPT !.lookPathErr = <<<<"executable file not found in $PATH">>>>],
          [noEnv EXCEPT !.outputErr = <<<<"exit status 1">>>>],
          [noEnv EXCEPT !.unmarshalErr = <<<<"unexpected end of JSON input">>>>]}
         \cup {[noEnv EXCEPT !.outdated = [Formulae |-> f]] : f \in Outdated}
    ELSE {noEnv}

----------------------------------------------------------------------------
(* One run of the update check *)

Init ==
    /\ pc = "start"
    /\ args = [githubAPI |-> GithubAPI, slug |-> Slug, current |-> <<>>, packageManager |-> ""]
    /\ env = noEnv
    /\ check = nil
    /\ err = nil
    /\ strategies = <<>>
    /\ parseCalls = <<>>
    /\ isLatest = nil
    /\ now = 0
    /\ upd = [LastUpdateCheck |-> 0]
    /\ shouldCheck = nil

\* The process calls CheckForUpdates once, with the version and the channel it
\* was built with.
CheckForUpdates ==
    /\ pc = "start"
    /\ \E current \in CurrentArgs, packageManager \in PackageManagers :
        \E e \in Envs(packageManager) :
            \E r \in {checkForUpdates(GithubAPI, Slug, current, packageManager, e)} :
            /\ args' = [githubAPI |-> GithubAPI, slug |-> Slug,
                        current |-> current, packageManager |-> packageManager]
            /\ env' = e
            /\ check' = r.check
            /\ err' = r.err
            /\ strategies' = r.strategies
            /\ parseCalls' = r.calls
    /\ pc' = "checked"
    /\ UNCHANGED <<isLatest, schedVars>>

\* The caller asks IsLatestVersion about the Options it got.
IsLatestVersion ==
    /\ pc = "checked"
    /\ check # nil
    /\ isLatest' = <<isLatestVersion(check[1])>>
    /\ UNCHANGED <<pc, args, env, check, err, strategies, parseCalls, schedVars>>

Next == CheckForUpdates \/ IsLatestVersion

Spec == Init /\ [][Next]_vars

----------------------------------------------------------------------------
(* The scheduler and the clock *)

\* The stored timestamp is the epoch or, written under a clock that ran ahead,
\* one hour in the future.
InitSched ==
    /\ pc = "start"
    /\ args = [githubAPI |-> GithubAPI, slug |-> Slug, current |-> <<>>, packageManager |-> ""]
    /\ env = noEnv
    /\ check = nil
    /\ err = nil
    /\ strategies = <<>>
    /\ parseCalls = <<>>
    /\ isLatest = nil
    /\ now = 0
    /\ upd \in {[LastUpdateCheck |-> 0], [LastUpdateCheck |-> TicksPerHour]}
    /\ shouldCheck = nil

Tick ==
    /\ now < MaxHours * TicksPerHour
    /\ now' = now + 1
    /\ UNCHANGED <<upd, shouldCheck, updateVars>>

\* The caller's persistence layer stamps the time of a check.
Persist ==
    /\ upd' = [upd EXCEPT !.LastUpdateCheck = now]
    /\ UNCHANGED <<now, shouldCheck, updateVars>>

ShouldCheckForUpdates ==
    /\ shouldCheck' = <<[diff |-> now - upd.LastUpdateCheck,
                         result |-> shouldCheckForUpdates(upd, now)]>>
    /\ UNCHANGED <<now, upd, updateVars>>

NextSched == Tick \/ Persist \/ ShouldCheckForUpdates

SpecSched == InitSched /\ [][NextSched]_vars

----------------------------------------------------------------------------
(* Properties *)

\* The Options CheckForUpdates returned.
opts == check[1]

\* The version the caller supplied, parsed.
supplied == semverParse(args.current).v

returned == pc = "checked" /\ check # nil

formulae == env.outdated.Formulae

\* The entries of the brew document that name this tool.
matching == {i \in 1..Len(formulae) : formulae[i].Name = "circleci"}

brewAnswered ==
    /\ args.packageManager = "homebrew"
    /\ env.lookPathErr = nil /\ env.outputErr = nil /\ env.unmarshalErr = nil

underscores(s) == {j \in 1..Len(s) : s[j] = "_"}

\* Equal as semantic versions: build metadata does not count.
semanticallyEqual(a, b) ==
    a.Major = b.Major /\ a.Minor = b.Minor /\ a.Patch = b.Patch /\ a.Pre = b.Pre

\* An error whose message carries the token instructions and the pointer to
\* the API documentation.
hasRemediation(e) ==
    \E i \in 1..Len(e) :
        /\ \E l \in 1..Len(e[i]) :
            e[i][l] = "  1. Generate a token at https://github.com/settings/tokens"
        /\ \E l \in 1..Len(e[i]) :
            e[i][l] = "More information about that API can be found here: https://developer.github.com/v3/repos/releases/"

\* C1: when a latest release is recorded, IsLatestVersion is true exactly when
\* latest.version and current are semantically equal; it is false when
\* current is behind latest and when it is ahead of it.
C1_IsLatestIffEqual ==
    (returned /\ isLatest # nil /\ opts.Latest # nil) =>
        /\ isLatest[1] <=> semanticallyEqual(opts.Latest[1].Version, opts.Current)
        /\ VersionCompare(opts.Current, opts.Latest[1].Version) # 0 => ~isLatest[1]

\* C1 witness: current is ahead of the recorded latest and IsLatestVersion said no.
C1_Witness ==
    /\ returned /\ isLatest = <<FALSE>> /\ opts.Latest # nil
    /\ opts.Current # ZeroVersion
    /\ VersionCompare(opts.Current, opts.Latest[1].Version) = 1

\* C2: IsLatestVersion is true whenever current is the zero-value version,
\* whatever latest is.
C2_ZeroCurrentIsLatest ==
    (returned /\ isLatest # nil /\ opts.Current = ZeroVersion) => isLatest[1]

\* C3 as claimed: a strategy run ends without error with found and latest
\* set, or with an error and found false.
C3_TwoOutcomes ==
    (returned /\ strategies # <<>>) =>
        \/ err = nil /\ opts.Found /\ opts.Latest # nil
        \/ err # nil /\ ~opts.Found

\* C3 amended: checkFromHomebrew sets found exactly when it sets latest, ends
\* without error with found true exactly when the document names the tool,
\* and ends with an error and found true only after an earlier matching
\* entry was recorded; checkFromSource fails with found false when the
\* updater cannot be built and otherwise returns the provider's found and
\* latest, with an error exactly when the provider reported one.
C3_Outcomes ==
    (returned /\ strategies # <<>>) =>
        IF strategies = <<"checkFromHomebrew">>
        THEN /\ opts.Found <=> opts.Latest # nil
             /\ err = nil => (opts.Found <=> matching # {})
             /\ (err # nil /\ opts.Found) => Cardinality(matching) >= 2
        ELSE IF env.newUpdaterErr # nil
        THEN err # nil /\ ~opts.Found /\ opts.Latest = nil
        ELSE /\ opts.Found = env.detect.found
             /\ opts.Latest = env.detect.latest
             /\ err # nil <=> env.detect.err # nil

\* C3 witness: brew answered with entries, none of them the tool's; no error, found false.
C3_Witness ==
    /\ returned /\ strategies = <<"checkFromHomebrew">> /\ brewAnswered
    /\ formulae # <<>> /\ matching = {}
    /\ err = nil /\ ~opts.Found /\ opts.Latest = nil

\* C4 as claimed: the returned current is the parsed version the caller supplied.
C4_CurrentImmutable == returned => opts.Current = supplied

\* The matching entries that report installed versions.
matchingInstalled == {i \in matching : Len(formulae[i].InstalledVersions) > 0}

\* C4 amended: the returned current is the parsed version the caller supplied
\* on every channel but homebrew, and on homebrew when no matching entry
\* reports installed versions; on homebrew with such an entry it is the
\* supplied version or the parse of the first installed version of such an
\* entry, and it is that parse when the entry is the only matching one and
\* its first installed version parses.
C4_CurrentFromCallerOrBrew ==
    returned =>
        IF brewAnswered /\ matchingInstalled # {}
        THEN /\ \/ opts.Current = supplied
                \/ \E i \in matchingInstalled :
                    /\ ParseHomebrewVersion(formulae[i].InstalledVersions[1]).err = nil
                    /\ opts.Current = ParseHomebrewVersion(formulae[i].InstalledVersions[1]).version
             /\ \A i \in matchingInstalled :
                    (matching = {i} /\ ParseHomebrewVersion(formulae[i].InstalledVersions[1]).err = nil)
                    => opts.Current = ParseHomebrewVersion(formulae[i].InstalledVersions[1]).version
        ELSE opts.Current = supplied

\* C4 witness: the homebrew check replaced the supplied 1.2.3 by the installed 0.1.1248.
C4_Witness ==
    /\ returned /\ brewAnswered /\ err = nil
    /\ args.current = str_1_2_3
    /\ opts.Current = [Major |-> 0, Minor |-> 1, Patch |-> 1248, Pre |-> <<>>, Build |-> <<>>]

\* C5: of a raw string with two or more underscores, ParseHomebrewVersion
\* turns the first underscore into a hyphen and hands every other character,
\* the later underscores included, unchanged to the semantic-version parser.
C5_OnlyFirstUnderscore ==
    \A k \in 1..Len(parseCalls) :
        Cardinality(underscores(parseCalls[k].raw)) >= 2 =>
            /\ Len(parseCalls[k].parsed) = Len(parseCalls[k].raw)
            /\ \A j \in 1..Len(parseCalls[k].raw) :
                parseCalls[k].parsed[j] =
                    IF j = IndexRune(parseCalls[k].raw, "_") THEN "-" ELSE parseCalls[k].raw[j]

\* C6: when brew answers with exactly one entry for the tool and its version
\* strings parse, there is no error, found is true, latest is the
\* revision-normalized parse of current_version, and current is the
\* revision-normalized parse of the first installed version, or the supplied
\* version when the entry reports no installed version.
C6_HomebrewMatch ==
    \A i \in 1..Len(formulae) :
        ( /\ returned /\ brewAnswered /\ matching = {i}
          /\ ParseHomebrewVersion(formulae[i].CurrentVersion).err = nil
          /\ Len(formulae[i].InstalledVersions) > 0 =>
                ParseHomebrewVersion(formulae[i].InstalledVersions[1]).err = nil )
        => /\ err = nil
           /\ opts.Found
           /\ opts.Latest = <<[Version |-> ParseHomebrewVersion(formulae[i].CurrentVersion).version]>>
           /\ Len(formulae[i].InstalledVersions) > 0 =>
                opts.Current = ParseHomebrewVersion(formulae[i].InstalledVersions[1]).version
           /\ Len(formulae[i].InstalledVersions) = 0 => opts.Current = supplied

\* C6 witness: installed 1.2.3_4 then 0.1.1248, current_version 0.1.3923:
\* current is 1.2.3-4 and latest is 0.1.3923.
C6_Witness ==
    /\ returned /\ brewAnswered /\ err = nil /\ opts.Found
    /\ Cardinality(matching) = 1
    /\ \E i \in matching :
        /\ formulae[i].InstalledVersions = <<str_1_2_3_rev4, str_0_1_1248>>
        /\ formulae[i].CurrentVersion = str_0_1_3923
    /\ opts.Current = [Major |-> 1, Minor |-> 2, Patch |-> 3,
                       Pre |-> <<[VersionStr |-> <<>>, VersionNum |-> 4, IsNum |-> TRUE]>>,
                       Build |-> <<>>]
    /\ opts.Latest = <<[Version |-> [Major |-> 0, Minor |-> 1, Patch |-> 3923,
                                     Pre |-> <<>>, Build |-> <<>>]]>>

\* C7: when brew answers with a document that has no entry for the tool,
\* there is no error, found stays false, latest stays absent and current is
\* the supplied version.
C7_HomebrewNoMatch ==
    (returned /\ brewAnswered /\ matching = {}) =>
        /\ err = nil
        /\ ~opts.Found
        /\ opts.Latest = nil
        /\ opts.Current = supplied

\* C7 witness: a document with two entries, neither the tool's.
C7_Witness ==
    /\ returned /\ brewAnswered /\ Len(formulae) = 2 /\ matching = {}
    /\ err = nil /\ ~opts.Found

\* The release API was asked and the query failed.
queryFailed ==
    /\ returned /\ args.packageManager \in {"release", "source"}
    /\ env.newUpdaterErr = nil /\ env.detect.err # nil

C10_ExactlyOneStrategy ==
    pc = "checked" =>
        IF semverParse(args.current).err
        THEN check = nil /\ err # nil /\ strategies = <<>>
        ELSE Len(strategies) = 1

\* C10 amended: a call whose current version parses runs checkFromSource alone
\* on release and source, checkFromHomebrew alone on homebrew, and no
\* strategy on any other channel, which returns the fresh result without
\* error; a call whose current version does not parse fails and runs none.
C10_AtMostOneStrategy ==
    pc = "checked" =>
        IF semverParse(args.current).err
        THEN check = nil /\ err # nil /\ strategies = <<>>
        ELSE /\ args.packageManager \in {"release", "source"} => strategies = <<"checkFromSource">>
             /\ args.packageManager = "homebrew" => strategies = <<"checkFromHomebrew">>
             /\ args.packageManager \notin {"release", "source", "homebrew"} =>
                    /\ strategies = <<>> /\ err = nil
                    /\ ~opts.Found /\ opts.Latest = nil /\ opts.Current = supplied

\* C10 witness: the snap channel ran no strategy.
C10_Witness ==
    /\ returned /\ args.packageManager = "snap"
    /\ strategies = <<>> /\ err = nil /\ ~opts.Found

=============================================================================
